---- MODULE Spec2Model ----
(***************************************************************************)
(* BatchExplorer: BlobStorageClientProxy (a wrapper around the             *)
(* @azure/storage-blob client), the keyboard toggle of CalloutDirective    *)
(* and FakeSubscriptionService.                                            *)
(*                                                                         *)
(* Strings are sequences of one-character strings, so that template        *)
(* literals and Array.join are computed character by character.  An        *)
(* optional value (a parameter that may be undefined) is the empty tuple   *)
(* None or the one-element tuple Some(x).                                  *)
(***************************************************************************)
EXTENDS Integers, Sequences, FiniteSets, TLC

None == <<>>
Some(x) == <<x>>

\* JavaScript truthiness of an optional string: undefined and "" are falsy.
TruthyStr(o) == o # None /\ o[1] # <<>>
\* JavaScript truthiness of an optional boolean.
TruthyBool(o) == o # None /\ o[1] = TRUE

\* `${x}`: undefined prints as the nine characters "undefined".
Template(o) ==
    IF o = None THEN <<"u", "n", "d", "e", "f", "i", "n", "e", "d">> ELSE o[1]

\* Array.prototype.join: undefined and null elements print as "".
JoinElem(o) == IF o = None THEN <<>> ELSE o[1]

RECURSIVE Join(_, _)
Join(elems, sep) ==
    IF Len(elems) = 0 THEN <<>>
    ELSE IF Len(elems) = 1 THEN JoinElem(elems[1])
    ELSE JoinElem(elems[1]) \o sep \o Join(Tail(elems), sep)

Slash == <<"/">>
Https == <<"h", "t", "t", "p", "s", ":", "/", "/">>
Dot == <<".">>

StartsWith(s, p) == Len(p) <= Len(s) /\ SubSeq(s, 1, Len(p)) = p

\* Position of the first "/" of s, 0 when there is none.
FirstSlash(s) ==
    IF \E i \in 1..Len(s) : s[i] = "/"
    THEN CHOOSE i \in 1..Len(s) : s[i] = "/" /\ \A j \in 1..(i - 1) : s[j] # "/"
    ELSE 0

\* Character codes, for the lexicographic order of blob names.
CharCode(c) ==
    CASE c = "/" -> 47
      [] c = "a" -> 97
      [] c = "d" -> 100
      [] c = "e" -> 101
      [] c = "g" -> 103
      [] c = "h" -> 104
      [] OTHER -> 127

RECURSIVE LexLess(_, _)
LexLess(a, b) ==
    IF a = <<>> THEN b # <<>>
    ELSE IF b = <<>> THEN FALSE
    ELSE IF a[1] = b[1] THEN LexLess(Tail(a), Tail(b))
    ELSE CharCode(a[1]) < CharCode(b[1])

(***************************************************************************)
(* Bounds and input sets                                                   *)
(***************************************************************************)
\* options.limit is drawn from 1..MaxPageSize (or left undefined).
MaxPageSize == 1
\* A transport fault can hit the page request number 1..MaxFaultPage.
MaxFaultPage == 2
\* The Enter keydown events dispatched on the host element.
MaxPresses == 6
\* The calls made on a FakeSubscriptionService.
MaxSubscriptionCalls == 3

ContainerNames == {<<"g">>, <<"h">>}
BlobNames == {<<"a">>, <<"d", "/", "a">>, <<"d", "/", "e", "/", "a">>}
Folders == {None, Some(<<"d", "/">>)}
Recursives == {None, Some(TRUE), Some(FALSE)}
Limits == {None} \cup {Some(n) : n \in 1..MaxPageSize}
\* A continuation token of the listing: the name the next page starts at.
Tokens == {None, Some(<<"d", "/">>)}
\* The local files to upload, each named by its size in bytes; a blob holds
\* the file it was uploaded from (0: the blob is absent).
LocalFiles == {1}
ContainerPrefixes == {<<>>, <<"g">>}
LocalNames == {<<"l">>}

NoError == "none"
NetworkFault == "NetworkFault"
\* The number of the request of a call that the transport fails (0: none).
FaultAts == 0..MaxFaultPage
SingleFaultAts == {0, 1}

AccountNames == {<<"a">>, <<"a", "d">>}
Endpoints == {<<"e">>, <<"e", ".", "h">>}

VARIABLES
    credential,      \* BlobStorageClientProxy.credential
    blobEndpoint,    \* BlobStorageClientProxy.blobEndpoint
    storageService,  \* BlobStorageClientProxy.storageService
    containers,      \* storage account: the containers that exist
    blobs,           \* storage account: blobs[c][n] is the file held by blob n of c, 0 if absent
    last,            \* the last completed call of the proxy: arguments and outcome
    calls,           \* the listBlobs calls in flight, suspended between pages
    url,             \* the last getUrl call: arguments and result
    overlayRef,      \* CalloutDirective._overlayRef is set
    openCalls,       \* calls of CalloutDirective.open seen by its spy
    closeCalls,      \* calls of CalloutDirective.close seen by its spy
    presses,         \* Enter keydown events dispatched on the host element
    subscriptions,   \* fake-subscription-service.ts: the array subscriptions
    subsLog,         \* the calls made on the FakeSubscriptionService, in order
    subsResult       \* what the promise of the last of them resolved to

vars == <<credential, blobEndpoint, storageService, containers, blobs,
          last, calls, url, overlayRef, openCalls, closeCalls, presses,
          subscriptions, subsLog, subsResult>>

proxyFields == <<credential, blobEndpoint, storageService>>
storageVars == <<containers, blobs>>
calloutVars == <<overlayRef, openCalls, closeCalls, presses>>
subsVars == <<subscriptions, subsLog, subsResult>>

(***************************************************************************)
(* The storage account as the @azure/storage-blob client shows it.  Every  *)
(* request takes a fault: NoError, or the transport error it fails with.   *)
(* A request answers [err |-> ...] plus its value and the changed storage. *)
(***************************************************************************)
FaultOf(requestNo, faultAt) == IF requestNo = faultAt THEN NetworkFault ELSE NoError

BlobExists(c, b) == c \in containers /\ blobs[c][b] # 0

NoBlobs == [n \in BlobNames |-> 0]

SdkBlobProperties(file) ==
    [contentLength |-> file, contentType |-> "application/octet-stream",
     lastModified |-> "t"]

\* BlobClient.deleteIfExists: BlobNotFound becomes succeeded = false, any
\* other error is thrown.
SdkDeleteIfExists(c, b, fault) ==
    IF fault # NoError THEN [err |-> fault, succeeded |-> FALSE, bs |-> blobs]
    ELSE IF c \notin containers
    THEN [err |-> "ContainerNotFound", succeeded |-> FALSE, bs |-> blobs]
    ELSE IF blobs[c][b] = 0 THEN [err |-> NoError, succeeded |-> FALSE, bs |-> blobs]
    ELSE [err |-> NoError, succeeded |-> TRUE, bs |-> [blobs EXCEPT ![c][b] = 0]]

\* BlobClient.getProperties
SdkGetProperties(c, b, fault) ==
    IF fault # NoError THEN [err |-> fault, props |-> SdkBlobProperties(0)]
    ELSE IF c \notin containers
    THEN [err |-> "ContainerNotFound", props |-> SdkBlobProperties(0)]
    ELSE IF blobs[c][b] = 0 THEN [err |-> "BlobNotFound", props |-> SdkBlobProperties(0)]
    ELSE [err |-> NoError, props |-> SdkBlobProperties(blobs[c][b])]

\* The bytes of local file k: k ASCII characters.
FileBytes(k) == [i \in 1..k |-> "x"]

\* BlobClient.downloadToBuffer
SdkDownloadToBuffer(c, b, fault) ==
    IF fault # NoError THEN [err |-> fault, buffer |-> <<>>]
    ELSE IF c \notin containers THEN [err |-> "ContainerNotFound", buffer |-> <<>>]
    ELSE IF blobs[c][b] = 0 THEN [err |-> "BlobNotFound", buffer |-> <<>>]
    ELSE [err |-> NoError, buffer |-> FileBytes(blobs[c][b])]

\* BlobClient.downloadToFile: the bytes go to the local path, outside the
\* storage account and the proxy.
SdkDownloadToFile(c, b, localFileName, fault) ==
    IF fault # NoError THEN [err |-> fault]
    ELSE IF c \notin containers THEN [err |-> "ContainerNotFound"]
    ELSE IF blobs[c][b] = 0 THEN [err |-> "BlobNotFound"]
    ELSE [err |-> NoError]

\* BlockBlobClient.uploadFile
SdkUploadFile(c, b, file, fault) ==
    IF fault # NoError THEN [err |-> fault, bs |-> blobs]
    ELSE IF c \notin containers THEN [err |-> "ContainerNotFound", bs |-> blobs]
    ELSE [err |-> NoError, bs |-> [blobs EXCEPT ![c][b] = file]]

\* ContainerClient.createIfNotExists: ContainerAlreadyExists becomes
\* succeeded = false, any other error is thrown.
SdkCreateIfNotExists(c, fault) ==
    IF fault # NoError THEN [err |-> fault, succeeded |-> FALSE, cs |-> containers]
    ELSE IF c \in containers THEN [err |-> NoError, succeeded |-> FALSE, cs |-> containers]
    ELSE [err |-> NoError, succeeded |-> TRUE, cs |-> containers \cup {c}]

\* BlobServiceClient.createContainer
SdkCreateContainer(c, fault) ==
    IF fault # NoError THEN [err |-> fault, cs |-> containers]
    ELSE IF c \in containers THEN [err |-> "ContainerAlreadyExists", cs |-> containers]
    ELSE [err |-> NoError, cs |-> containers \cup {c}]

\* BlobServiceClient.deleteContainer: the container goes with its blobs.
SdkDeleteContainer(c, fault) ==
    IF fault # NoError THEN [err |-> fault, cs |-> containers, bs |-> blobs]
    ELSE IF c \notin containers
    THEN [err |-> "ContainerNotFound", cs |-> containers, bs |-> blobs]
    ELSE [err |-> NoError, cs |-> containers \ {c}, bs |-> [blobs EXCEPT ![c] = NoBlobs]]

\* ContainerClient.getProperties
SdkContainerGetProperties(c, fault) ==
    IF fault # NoError THEN [err |-> fault, response |-> [lastModified |-> "t"]]
    ELSE IF c \notin containers
    THEN [err |-> "ContainerNotFound", response |-> [lastModified |-> "t"]]
    ELSE [err |-> NoError, response |-> [lastModified |-> "t"]]

\* The sequence of the elements of S (records with a name), by name.
RECURSIVE SortByName(_)
SortByName(S) ==
    IF S = {} THEN <<>>
    ELSE LET m == CHOOSE e \in S : \A f \in S \ {e} : LexLess(e.name, f.name)
         IN <<m>> \o SortByName(S \ {m})

\* What a hierarchical listing shows of blob n under the prefix: the blob
\* itself, or, when a delimiter is given and n has one after the prefix, the
\* virtual directory up to and including that delimiter.
ListEntry(c, n, prefix, delimiter) ==
    LET rest == SubSeq(n, Len(prefix) + 1, Len(n))
        cut == FirstSlash(rest)
    IN IF delimiter # None /\ cut > 0
       THEN [kind |-> "prefix", name |-> SubSeq(n, 1, Len(prefix) + cut), file |-> 0]
       ELSE [kind |-> "blob", name |-> n, file |-> blobs[c][n]]

ListEntries(c, prefixOpt, delimiter) ==
    LET prefix == IF prefixOpt = None THEN <<>> ELSE prefixOpt[1]
    IN {ListEntry(c, n, prefix, delimiter) :
            n \in {m \in BlobNames : blobs[c][m] # 0 /\ StartsWith(m, prefix)}}

IsPrefixEntry(e) == e.kind = "prefix"
IsBlobEntry(e) == e.kind = "blob"

\* One page of ContainerClient.listBlobsByHierarchy(delimiter, {prefix})
\* .byPage({continuationToken, maxPageSize}): the entries from the marker on,
\* by name, at most maxPageSize of them, prefixes and blobs counted together.
SdkListBlobsSegment(c, delimiter, prefixOpt, marker, maxPageSize, fault) ==
    LET all == SortByName({e \in ListEntries(c, prefixOpt, delimiter) :
                               marker = None \/ ~LexLess(e.name, marker[1])})
        n == IF maxPageSize = None \/ maxPageSize[1] >= Len(all)
             THEN Len(all) ELSE maxPageSize[1]
        page == SubSeq(all, 1, n)
        prefixes == SelectSeq(page, IsPrefixEntry)
        items == SelectSeq(page, IsBlobEntry)
        empty == [segment |-> [blobPrefixes |-> <<>>, blobItems |-> <<>>],
                  continuationToken |-> None]
    IN IF fault # NoError THEN [err |-> fault] @@ empty
       ELSE IF c \notin containers THEN [err |-> "ContainerNotFound"] @@ empty
       ELSE [err |-> NoError,
             segment |->
                [blobPrefixes |-> [i \in 1..Len(prefixes) |-> [name |-> prefixes[i].name]],
                 blobItems |-> [i \in 1..Len(items) |->
                                   [name |-> items[i].name,
                                    properties |-> SdkBlobProperties(items[i].file)]]],
             continuationToken |-> IF n < Len(all) THEN Some(all[n + 1].name) ELSE None]

\* BlobServiceClient.listContainers({prefix}).byPage(settings): one page with
\* every container of the prefix.  settings is the PageSettings object; the
\* marker is settings.continuationToken.
SdkListContainersSegment(prefix, marker, fault) ==
    LET all == SortByName({[name |-> c] : c \in {d \in containers : StartsWith(d, prefix)}})
    IN IF fault # NoError THEN [err |-> fault, containerItems |-> <<>>]
       ELSE [err |-> NoError,
             containerItems |-> SelectSeq(all, LAMBDA e :
                                   marker = None \/ ~LexLess(e.name, marker[1]))]

(***************************************************************************)
(* BlobStorageClientProxy.  Each operation is an operator that computes    *)
(* the outcome of the call: what it returns or throws, the storage it      *)
(* leaves, and what it asked of the client (sdkErr: the error the client   *)
(* answered with, sdkCalls: the requests made, sdkToken: the continuation  *)
(* token of the last page read, delimiter: the delimiter requested).       *)
(***************************************************************************)
constructor(accountName, endpoint) ==
    [credential |-> [accountName |-> accountName],
     blobEndpoint |-> endpoint,
     storageService |-> [url |-> Https \o accountName \o Dot \o endpoint,
                         credential |-> [accountName |-> accountName]]]

Outcome ==
    [error |-> NoError, kind |-> "void", bool |-> FALSE, data |-> <<>>,
     token |-> None, text |-> <<>>,
     cs |-> containers, bs |-> blobs,
     sdkErr |-> NoError, sdkCalls |-> 0, sdkToken |-> None, delimiter |-> None]

\* An awaited request that rejects: the call throws what the client threw.
Thrown(err, requests) ==
    [Outcome EXCEPT !.error = err, !.kind = "throw", !.sdkErr = err,
                    !.sdkCalls = requests]

DirectoryDescriptor(container, prefix) ==
    [name |-> prefix.name,
     url |-> container \o Slash \o prefix.name,
     isDirectory |-> TRUE]

FileDescriptor(container, blob) ==
    [name |-> blob.name,
     url |-> container \o Slash \o blob.name,
     isDirectory |-> FALSE,
     properties |-> [contentLength |-> blob.properties.contentLength,
                     contentType |-> blob.properties.contentType,
                     creationTime |-> "null",
                     lastModified |-> blob.properties.lastModified]]

\* The body of the page loop: the page's prefixes, then the page's blobs.
PushPage(acc, container, segment) ==
    acc \o [i \in 1..Len(segment.blobPrefixes) |->
                DirectoryDescriptor(container, segment.blobPrefixes[i])]
        \o [i \in 1..Len(segment.blobItems) |->
                FileDescriptor(container, segment.blobItems[i])]

\* Mutant: the two branches of the conditional swapped.
ListDelimiter_swapped(recursive) == IF TruthyBool(recursive) THEN Some(Slash) ELSE None

ListDelimiter(recursive) == IF TruthyBool(recursive) THEN None ELSE Some(Slash)

\* for await (const page of pages): every page from the marker to the end.
RECURSIVE ListBlobsPages(_, _, _, _, _, _, _, _)
ListBlobsPages(container, delimiter, prefix, maxPageSize, marker, acc, pageNo, faultAt) ==
    LET page == SdkListBlobsSegment(container, delimiter, prefix, marker, maxPageSize,
                                    FaultOf(pageNo, faultAt))
        acc2 == PushPage(acc, container, page.segment)
    IN IF page.err # NoError
       THEN [err |-> page.err, blobs |-> acc, requests |-> pageNo, sdkToken |-> marker]
       ELSE IF page.continuationToken = None
       THEN [err |-> NoError, blobs |-> acc2, requests |-> pageNo, sdkToken |-> None]
       ELSE ListBlobsPages(container, delimiter, prefix, maxPageSize,
                           page.continuationToken, acc2, pageNo + 1, faultAt)

\* Mutant: the page loop in a try/catch that returns the pages read so far.
ListBlobsReturn_partial(delimiter, run, continuationToken) ==
    [Outcome EXCEPT !.kind = "list", !.data = run.blobs,
                    !.token = continuationToken, !.sdkErr = run.err,
                    !.sdkCalls = run.requests, !.sdkToken = run.sdkToken,
                    !.delimiter = delimiter]

ListBlobsReturn(delimiter, run, continuationToken) ==
    IF run.err # NoError
    THEN [Thrown(run.err, run.requests) EXCEPT !.delimiter = delimiter]
    ELSE [Outcome EXCEPT !.kind = "list", !.data = run.blobs,
                         !.token = continuationToken,
                         !.sdkCalls = run.requests, !.sdkToken = run.sdkToken,
                         !.delimiter = delimiter]

listBlobs(container, options, continuationToken, faultAt) ==
    LET prefix == options.folder
        delimiter == ListDelimiter(options.recursive)
        run == ListBlobsPages(container, delimiter, prefix, options.limit,
                              continuationToken, <<>>, 1, faultAt)
    IN ListBlobsReturn(delimiter, run, continuationToken)

getBlobProperties(container, blobName, blobPrefix, faultAt) ==
    LET blobPath == blobPrefix \o blobName
        r == SdkGetProperties(container, blobName, FaultOf(1, faultAt))
    IN IF r.err # NoError THEN Thrown(r.err, 1)
       ELSE [Outcome EXCEPT
                !.kind = "single", !.sdkCalls = 1,
                !.data = <<[name |-> blobName,
                            url |-> container \o Slash \o blobPath,
                            isDirectory |-> FALSE,
                            properties |-> [contentLength |-> r.props.contentLength,
                                            contentType |-> r.props.contentType,
                                            creationTime |-> "null",
                                            lastModified |-> r.props.lastModified]]>>]

\* The blobs hold ASCII bytes: new TextDecoder(encoding).decode(buffer) and
\* buffer.toString() both give the bytes as characters.
getBlobContent(container, blob, faultAt) ==
    LET r == SdkDownloadToBuffer(container, blob, FaultOf(1, faultAt))
    IN IF r.err # NoError THEN Thrown(r.err, 1)
       ELSE [Outcome EXCEPT !.kind = "content", !.sdkCalls = 1, !.text = r.buffer]

getBlobToLocalFile(container, blob, localFileName, faultAt) ==
    LET r == SdkDownloadToFile(container, blob, localFileName, FaultOf(1, faultAt))
    IN IF r.err # NoError THEN Thrown(r.err, 1)
       ELSE [Outcome EXCEPT !.kind = "void", !.sdkCalls = 1]

\* Mutant: returns the response, which is truthy, for response.succeeded.
deleteBlobIfExists_response(container, blob, faultAt) ==
    LET response == SdkDeleteIfExists(container, blob, FaultOf(1, faultAt))
    IN IF response.err # NoError THEN Thrown(response.err, 1)
       ELSE [Outcome EXCEPT !.kind = "bool", !.sdkCalls = 1,
                            !.bool = TRUE, !.bs = response.bs]

deleteBlobIfExists(container, blob, faultAt) ==
    LET response == SdkDeleteIfExists(container, blob, FaultOf(1, faultAt))
    IN IF response.err # NoError THEN Thrown(response.err, 1)
       ELSE [Outcome EXCEPT !.kind = "bool", !.sdkCalls = 1,
                            !.bool = response.succeeded, !.bs = response.bs]

\* byPage(continuationToken): byPage reads settings.continuationToken, and the
\* token passed in the place of settings has no such property.
listContainersWithPrefix(prefix, continuationToken, faultAt) ==
    LET page == SdkListContainersSegment(prefix, None, FaultOf(1, faultAt))
    IN IF page.err # NoError THEN Thrown(page.err, 1)
       ELSE [Outcome EXCEPT
                !.kind = "list", !.sdkCalls = 1,
                !.data = [i \in 1..Len(page.containerItems) |->
                             [name |-> page.containerItems[i].name,
                              id |-> page.containerItems[i].name]],
                !.token = continuationToken]

getContainerProperties(container, faultAt) ==
    LET r == SdkContainerGetProperties(container, FaultOf(1, faultAt))
    IN IF r.err # NoError THEN Thrown(r.err, 1)
       ELSE [Outcome EXCEPT !.kind = "single", !.sdkCalls = 1, !.data = <<r.response>>]

deleteContainer(container, faultAt) ==
    LET r == SdkDeleteContainer(container, FaultOf(1, faultAt))
    IN IF r.err # NoError THEN Thrown(r.err, 1)
       ELSE [Outcome EXCEPT !.kind = "void", !.sdkCalls = 1, !.cs = r.cs, !.bs = r.bs]

createContainer(containerName, faultAt) ==
    LET r == SdkCreateContainer(containerName, FaultOf(1, faultAt))
    IN IF r.err # NoError THEN Thrown(r.err, 1)
       ELSE [Outcome EXCEPT !.kind = "void", !.sdkCalls = 1, !.cs = r.cs]

\* Mutant: calls createContainer, which fails on a container that exists.
createContainerIfNotExists_create(containerName, faultAt) ==
    LET r == SdkCreateContainer(containerName, FaultOf(1, faultAt))
    IN IF r.err # NoError THEN Thrown(r.err, 1)
       ELSE [Outcome EXCEPT !.kind = "bool", !.sdkCalls = 1,
                            !.bool = TRUE, !.cs = r.cs]

createContainerIfNotExists(containerName, faultAt) ==
    LET response == SdkCreateIfNotExists(containerName, FaultOf(1, faultAt))
    IN IF response.err # NoError THEN Thrown(response.err, 1)
       ELSE [Outcome EXCEPT !.kind = "bool", !.sdkCalls = 1,
                            !.bool = response.succeeded, !.cs = response.cs]

uploadFile(container, file, blobName, faultAt) ==
    LET r == SdkUploadFile(container, blobName, file, FaultOf(1, faultAt))
    IN IF r.err # NoError THEN Thrown(r.err, 1)
       ELSE [Outcome EXCEPT !.kind = "upload", !.sdkCalls = 1, !.bs = r.bs]

\* Mutant: the container URL built by a template literal, which prints an
\* undefined sasToken.
getUrl_template(container, blob, sasToken) ==
    Join(<<Some(Https \o credential.accountName \o Dot \o blobEndpoint),
           Some(container),
           IF TruthyStr(blob)
           THEN Some(Slash \o Template(blob) \o Template(sasToken))
           ELSE Some(Template(sasToken))>>,
         Slash)

getUrl(container, blob, sasToken) ==
    Join(<<Some(Https \o credential.accountName \o Dot \o blobEndpoint),
           Some(container),
           IF TruthyStr(blob)
           THEN Some(Slash \o Template(blob) \o Template(sasToken))
           ELSE sasToken>>,
         Slash)

(***************************************************************************)
(* The calls.  last records the arguments and the outcome of the call that *)
(* completed last; existed tells whether the blob or container the call    *)
(* names was there when it was made, repeatOfTrue whether the call before  *)
(* it was the same operation on the same target and returned true.         *)
(***************************************************************************)
Args ==
    [container |-> <<>>, blob |-> <<>>, prefix |-> None, recursive |-> None,
     limit |-> None, token |-> None, faultAt |-> 0]

LastRecord(op, args, out, existed) ==
    [op |-> op, container |-> args.container, blob |-> args.blob,
     prefix |-> args.prefix, recursive |-> args.recursive, limit |-> args.limit,
     token |-> args.token, faultAt |-> args.faultAt,
     existed |-> existed,
     repeatOfTrue |-> /\ last.op = op
                      /\ last.container = args.container
                      /\ last.blob = args.blob
                      /\ last.error = NoError
                      /\ last.bool,
     error |-> out.error, kind |-> out.kind, bool |-> out.bool, data |-> out.data,
     retToken |-> out.token, text |-> out.text,
     sdkErr |-> out.sdkErr, sdkCalls |-> out.sdkCalls, sdkToken |-> out.sdkToken,
     delimiter |-> out.delimiter]

NoCall == [pc |-> "idle", container |-> <<>>, folder |-> None, recursive |-> None,
           limit |-> None, token |-> None, faultAt |-> 0, delimiter |-> None,
           marker |-> None, blobs |-> <<>>, pageNo |-> 0]

Callers == {"p", "q"}

\* The call settles: the storage is what the call left, last is the call.
Settle(op, args, out, existed) ==
    /\ containers' = out.cs
    /\ blobs' = out.bs
    /\ last' = LastRecord(op, args, out, existed)
    /\ UNCHANGED <<proxyFields, calls, url, calloutVars, subsVars>>

ListBlobs ==
    \E container \in ContainerNames, folder \in Folders, recursive \in Recursives,
       limit \in Limits, continuationToken \in Tokens, faultAt \in FaultAts :
        Settle("listBlobs",
               [Args EXCEPT !.container = container, !.prefix = folder,
                            !.recursive = recursive, !.limit = limit,
                            !.token = continuationToken, !.faultAt = faultAt],
               listBlobs(container,
                         [folder |-> folder, recursive |-> recursive, limit |-> limit],
                         continuationToken, faultAt),
               container \in containers)

GetBlobProperties ==
    \E container \in ContainerNames, blobName \in BlobNames,
       blobPrefix \in {<<>>, <<"d", "/">>}, faultAt \in SingleFaultAts :
        Settle("getBlobProperties",
               [Args EXCEPT !.container = container, !.blob = blobName,
                            !.prefix = Some(blobPrefix), !.faultAt = faultAt],
               getBlobProperties(container, blobName, blobPrefix, faultAt),
               BlobExists(container, blobName))

GetBlobContent ==
    \E container \in ContainerNames, blob \in BlobNames, faultAt \in SingleFaultAts :
        Settle("getBlobContent",
               [Args EXCEPT !.container = container, !.blob = blob, !.faultAt = faultAt],
               getBlobContent(container, blob, faultAt),
               BlobExists(container, blob))

GetBlobToLocalFile ==
    \E container \in ContainerNames, blob \in BlobNames,
       localFileName \in LocalNames, faultAt \in SingleFaultAts :
        Settle("getBlobToLocalFile",
               [Args EXCEPT !.container = container, !.blob = blob, !.faultAt = faultAt],
               getBlobToLocalFile(container, blob, localFileName, faultAt),
               BlobExists(container, blob))

DeleteBlobIfExists ==
    \E container \in ContainerNames, blob \in BlobNames, faultAt \in SingleFaultAts :
        Settle("deleteBlobIfExists",
               [Args EXCEPT !.container = container, !.blob = blob, !.faultAt = faultAt],
               deleteBlobIfExists(container, blob, faultAt),
               BlobExists(container, blob))

ListContainersWithPrefix ==
    \E prefix \in ContainerPrefixes, continuationToken \in {None, Some(<<"h">>)},
       faultAt \in SingleFaultAts :
        Settle("listContainersWithPrefix",
               [Args EXCEPT !.prefix = Some(prefix), !.token = continuationToken,
                            !.faultAt = faultAt],
               listContainersWithPrefix(prefix, continuationToken, faultAt),
               TRUE)

GetContainerProperties ==
    \E container \in ContainerNames, faultAt \in SingleFaultAts :
        Settle("getContainerProperties",
               [Args EXCEPT !.container = container, !.faultAt = faultAt],
               getContainerProperties(container, faultAt),
               container \in containers)

DeleteContainer ==
    \E container \in ContainerNames, faultAt \in SingleFaultAts :
        Settle("deleteContainer",
               [Args EXCEPT !.container = container, !.faultAt = faultAt],
               deleteContainer(container, faultAt),
               container \in containers)

CreateContainer ==
    \E containerName \in ContainerNames, faultAt \in SingleFaultAts :
        Settle("createContainer",
               [Args EXCEPT !.container = containerName, !.faultAt = faultAt],
               createContainer(containerName, faultAt),
               containerName \in containers)

CreateContainerIfNotExists ==
    \E containerName \in ContainerNames, faultAt \in SingleFaultAts :
        Settle("createContainerIfNotExists",
               [Args EXCEPT !.container = containerName, !.faultAt = faultAt],
               createContainerIfNotExists(containerName, faultAt),
               containerName \in containers)

UploadFile ==
    \E container \in ContainerNames, file \in LocalFiles, blobName \in BlobNames,
       faultAt \in SingleFaultAts :
        Settle("uploadFile",
               [Args EXCEPT !.container = container, !.blob = blobName,
                            !.faultAt = faultAt],
               uploadFile(container, file, blobName, faultAt),
               BlobExists(container, blobName))

NoLast ==
    [op |-> "none", container |-> <<>>, blob |-> <<>>, prefix |-> None,
     recursive |-> None, limit |-> None, token |-> None, faultAt |-> 0,
     existed |-> FALSE, repeatOfTrue |-> FALSE,
     error |-> NoError, kind |-> "void", bool |-> FALSE, data |-> <<>>,
     retToken |-> None, text |-> <<>>,
     sdkErr |-> NoError, sdkCalls |-> 0, sdkToken |-> None, delimiter |-> None]

NoUrl == [container |-> <<>>, blob |-> None, sasToken |-> None, result |-> <<>>]

InitProxy(accountName, endpoint) ==
    /\ credential = constructor(accountName, endpoint).credential
    /\ blobEndpoint = constructor(accountName, endpoint).blobEndpoint
    /\ storageService = constructor(accountName, endpoint).storageService
    /\ last = NoLast
    /\ calls = [p \in Callers |-> NoCall]
    /\ url = NoUrl

\* const subscriptions = [...]
FakeSubscriptions ==
    <<[id |-> "/fake/sub1", displayName |-> "Subscription One"],
      [id |-> "/fake/sub2", displayName |-> "Subscription Two"],
      [id |-> "/fake/sub3", displayName |-> "Subscription Three"],
      [id |-> "/fake/sub4", displayName |-> "Subscription Four"],
      [id |-> "/fake/badsub", displayName |-> "Bad Subscription"]>>

NoSubsResult == [kind |-> "none", value |-> <<>>]

InitSubs ==
    /\ subscriptions = FakeSubscriptions
    /\ subsLog = <<>>
    /\ subsResult = NoSubsResult

InitCallout ==
    /\ overlayRef = FALSE
    /\ openCalls = 0
    /\ closeCalls = 0
    /\ presses = 0

\* A new storage account: no container.
Init ==
    /\ InitProxy(<<"a">>, <<"e">>)
    /\ containers = {}
    /\ blobs = [c \in ContainerNames |-> NoBlobs]
    /\ InitCallout
    /\ InitSubs

Next ==
    \/ ListBlobs
    \/ GetBlobProperties
    \/ GetBlobContent
    \/ GetBlobToLocalFile
    \/ DeleteBlobIfExists
    \/ ListContainersWithPrefix
    \/ GetContainerProperties
    \/ DeleteContainer
    \/ CreateContainer
    \/ CreateContainerIfNotExists
    \/ UploadFile

Spec == Init /\ [][Next]_vars

(***************************************************************************)
(* Properties of the calls of the proxy, checked under Spec.               *)
(***************************************************************************)
ListedOk == last.op = "listBlobs" /\ last.error = NoError

PrefixString(o) == IF o = None THEN <<>> ELSE o[1]

\* What is left of a listed name after the folder asked for.
BelowFolder(name) == SubSeq(name, Len(PrefixString(last.prefix)) + 1, Len(name))

\* C1: the continuationToken that listBlobs returns is the token of the page
\* after the last page it read: undefined once the enumeration is exhausted.
C1_ReturnsNextPageToken ==
    ListedOk => last.retToken = last.sdkToken

\* C6: in the data of listBlobs the directory descriptors come before the
\* file descriptors, a directory descriptor has no properties field and a
\* file descriptor has one.
C6_DirectoriesBeforeFiles ==
    ListedOk =>
        /\ \A i, j \in 1..Len(last.data) :
              (i < j /\ ~last.data[i].isDirectory) => ~last.data[j].isDirectory
        /\ \A i \in 1..Len(last.data) :
              last.data[i].isDirectory <=> "properties" \notin DOMAIN last.data[i]

\* The blobs of the container of the last call that the listing has to show:
\* those of the folder, from the continuation token on.
BlobsToList ==
    {n \in BlobNames :
        /\ blobs[last.container][n] # 0
        /\ StartsWith(n, PrefixString(last.prefix))
        /\ (last.token = None \/ ~LexLess(n, last.token[1]))}

\* C7: with recursive false or unset listBlobs asks for the delimiter "/",
\* no file descriptor has a "/" below the folder and a nested blob shows as
\* the directory descriptor of its first level; with recursive true it asks
\* for no delimiter and every blob below the folder is a file descriptor.
C7_DelimiterUnlessRecursive ==
    (last.op = "listBlobs") =>
        IF TruthyBool(last.recursive)
        THEN /\ last.delimiter = None
             /\ (last.error = NoError) =>
                   /\ \A i \in 1..Len(last.data) : ~last.data[i].isDirectory
                   /\ {last.data[i].name : i \in 1..Len(last.data)} = BlobsToList
        ELSE /\ last.delimiter = Some(Slash)
             /\ (last.error = NoError) =>
                   /\ \A i \in 1..Len(last.data) :
                         LET d == last.data[i]
                             rest == BelowFolder(d.name)
                         IN /\ StartsWith(d.name, PrefixString(last.prefix))
                            /\ IF d.isDirectory
                               THEN FirstSlash(rest) = Len(rest) /\ Len(rest) > 0
                               ELSE FirstSlash(rest) = 0
                   /\ (last.token = None) =>
                         \A n \in BlobsToList :
                            LET cut == FirstSlash(BelowFolder(n))
                            IN \E i \in 1..Len(last.data) :
                                  /\ last.data[i].isDirectory = (cut > 0)
                                  /\ last.data[i].name =
                                        IF cut > 0
                                        THEN SubSeq(n, 1, Len(PrefixString(last.prefix)) + cut)
                                        ELSE n

\* C7 happens: a listing one level deep shows a directory and a file.
C7_Witness ==
    /\ ListedOk
    /\ ~TruthyBool(last.recursive)
    /\ last.prefix # None
    /\ \E i, j \in 1..Len(last.data) :
          last.data[i].isDirectory /\ ~last.data[j].isDirectory

C5_CreateTwice ==
    (last.op = "createContainerIfNotExists") =>
        /\ last.error # "ContainerAlreadyExists"
        /\ (last.faultAt = 0) => last.error = NoError
        /\ (last.error = NoError) => last.bool = ~last.existed
        /\ (last.error = NoError /\ last.repeatOfTrue) => ~last.bool

\* C5 happens: the second of two creations of the same container returned false.
C5_Witness ==
    /\ last.op = "createContainerIfNotExists"
    /\ last.repeatOfTrue
    /\ last.error = NoError
    /\ ~last.bool

\* C9: a call whose request the client fails throws the error of the client
\* and returns nothing; the failed request is the last one the call makes,
\* and a transport fault on a request that is made always fails the call.
C9_FailurePropagates ==
    /\ (last.sdkErr # NoError) =>
          /\ last.error = last.sdkErr
          /\ last.kind = "throw"
          /\ last.data = <<>> /\ last.text = <<>> /\ ~last.bool /\ last.retToken = None
    /\ (last.error = NetworkFault) => last.sdkCalls = last.faultAt
    /\ (last.op # "none" /\ last.faultAt = 1) => last.error = NetworkFault
    /\ (last.faultAt > 0 /\ last.sdkCalls >= last.faultAt) => last.error = NetworkFault

\* C9 happens: the second page request of a listing failed after the first
\* page had been read.
C9_Witness ==
    /\ last.op = "listBlobs"
    /\ last.faultAt = 2
    /\ last.error = NetworkFault
    /\ last.sdkCalls = 2

(***************************************************************************)
(* getUrl, a pure function of the fields and its arguments.                *)
(***************************************************************************)
UrlContainers == {<<"g">>, <<"h">>, <<"g", "h">>}
UrlBlobs == {None, Some(<<>>), Some(<<"a">>), Some(<<"d", "/", "a">>)}
SasTokens == {None, Some(<<>>), Some(<<"?", "s">>)}

GetUrl ==
    /\ \E container \in UrlContainers, blob \in UrlBlobs, sasToken \in SasTokens :
          url' = [container |-> container, blob |-> blob, sasToken |-> sasToken,
                  result |-> getUrl(container, blob, sasToken)]
    /\ UNCHANGED <<proxyFields, storageVars, last, calls, calloutVars, subsVars>>

InitUrl ==
    /\ \E accountName \in AccountNames, endpoint \in Endpoints :
          InitProxy(accountName, endpoint)
    /\ containers = {}
    /\ blobs = [c \in ContainerNames |-> NoBlobs]
    /\ InitCallout
    /\ InitSubs

NextUrl == GetUrl

SpecUrl == InitUrl /\ [][NextUrl]_vars

UrlCalled == url.result # <<>>

\* https://<account>.<endpoint>/<container>
ContainerUrl ==
    Https \o credential.accountName \o Dot \o blobEndpoint \o Slash \o url.container

\* C2: with a non-empty blob and a sasToken, getUrl returns
\* https://<account>.<endpoint>/<container>/<blob><sasToken>.
C2_BlobUrl ==
    (UrlCalled /\ TruthyStr(url.blob) /\ url.sasToken # None) =>
        url.result = ContainerUrl \o Slash \o url.blob[1] \o url.sasToken[1]

\* C3: with no blob, getUrl returns https://<account>.<endpoint>/<container>/
\* followed by the sasToken, or by nothing when no sasToken is given.
C3_ContainerUrl ==
    (UrlCalled /\ url.blob = None) =>
        url.result = ContainerUrl \o Slash \o
                        (IF url.sasToken = None THEN <<>> ELSE url.sasToken[1])

\* C3 happens: getUrl was called with a container alone.
C3_Witness ==
    /\ UrlCalled
    /\ url.blob = None
    /\ url.sasToken = None
    /\ url.result = ContainerUrl \o Slash

(***************************************************************************)
(* CalloutDirective under the spies of its test: open and close are        *)
(* replaced by spies that count their calls, and the test sets _overlayRef *)
(* itself.  The keydown handler calls close when a callout is open and     *)
(* open when none is.                                                      *)
(***************************************************************************)
\* Mutant: the handler opens whatever the state of the callout.
KeydownTarget_open(isOpen) == "open"

KeydownTarget(isOpen) == IF isOpen THEN "close" ELSE "open"

\* input.dispatchEvent(new KeyboardEvent("keydown", { key: "Enter" }))
KeydownEnter ==
    /\ presses < MaxPresses
    /\ presses' = presses + 1
    /\ openCalls' = IF KeydownTarget(overlayRef) = "open" THEN openCalls + 1 ELSE openCalls
    /\ closeCalls' = IF KeydownTarget(overlayRef) = "close" THEN closeCalls + 1 ELSE closeCalls
    /\ UNCHANGED <<overlayRef, proxyFields, storageVars, last, calls, url, subsVars>>

\* directive._overlayRef = {}
SimulateOpenCallout ==
    /\ overlayRef' = TRUE
    /\ UNCHANGED <<openCalls, closeCalls, presses, proxyFields, storageVars, last, calls, url, subsVars>>

\* openSpy.calls.reset()
ResetOpenSpy ==
    /\ openCalls' = 0
    /\ UNCHANGED <<overlayRef, closeCalls, presses, proxyFields, storageVars, last, calls, url, subsVars>>

NextCallout == KeydownEnter \/ SimulateOpenCallout \/ ResetOpenSpy

SpecCallout == Init /\ [][NextCallout]_vars

\* C8: an Enter keydown calls open once and not close when no callout is open,
\* and close once and not open when a callout is open.
C8_EnterToggles ==
    [][(presses' = presses + 1) =>
          IF overlayRef
          THEN closeCalls' = closeCalls + 1 /\ openCalls' = openCalls
          ELSE openCalls' = openCalls + 1 /\ closeCalls' = closeCalls]_vars

\* C8 happens: Enter was pressed on a closed and then on an open callout.
C8_Witness ==
    /\ presses = 2
    /\ overlayRef
    /\ openCalls = 1
    /\ closeCalls = 1

(***************************************************************************)
(* Concurrent listBlobs calls.  A call runs to its first await, then reads *)
(* one page at each step, suspended between pages while the other calls    *)
(* run; with the last page it returns.  The storage account holds blobs    *)
(* and does not change while the calls run.                                *)
(***************************************************************************)
ConcRecursives == {None, Some(TRUE)}
ConcFaultAts == {0, 2}

\* Mutant: the array of blobs kept in a field of the proxy, which the calls
\* in flight share.
LocalBlobs_shared(p) ==
    IF \E q \in Callers \ {p} : calls[q].pc = "paging"
    THEN calls[CHOOSE q \in Callers \ {p} : calls[q].pc = "paging"].blobs \o calls[p].blobs
    ELSE calls[p].blobs

\* const blobs = []: the array of call p.
LocalBlobs(p) == calls[p].blobs

\* listBlobs up to the first await of the page loop.
ListBlobsCall(p) ==
    /\ calls[p].pc = "idle"
    /\ \E container \in ContainerNames, folder \in Folders, recursive \in ConcRecursives,
          limit \in Limits, faultAt \in ConcFaultAts :
          calls' = [calls EXCEPT ![p] =
                       [pc |-> "paging", container |-> container, folder |-> folder,
                        recursive |-> recursive, limit |-> limit, token |-> None,
                        faultAt |-> faultAt,
                        delimiter |-> ListDelimiter(recursive), marker |-> None,
                        blobs |-> <<>>, pageNo |-> 1]]
    /\ UNCHANGED <<proxyFields, storageVars, last, url, calloutVars, subsVars>>

CallArgs(c) ==
    [Args EXCEPT !.container = c.container, !.prefix = c.folder,
                 !.recursive = c.recursive, !.limit = c.limit, !.token = c.token,
                 !.faultAt = c.faultAt]

\* One turn of the page loop of call p, and the return after the last page.
ListBlobsNextPage(p) ==
    LET c == calls[p]
        page == SdkListBlobsSegment(c.container, c.delimiter, c.folder, c.marker,
                                    c.limit, FaultOf(c.pageNo, c.faultAt))
        acc2 == PushPage(LocalBlobs(p), c.container, page.segment)
        run == IF page.err # NoError
               THEN [err |-> page.err, blobs |-> LocalBlobs(p), requests |-> c.pageNo,
                     sdkToken |-> c.marker]
               ELSE [err |-> NoError, blobs |-> acc2, requests |-> c.pageNo,
                     sdkToken |-> None]
    IN /\ c.pc = "paging"
       /\ IF page.err = NoError /\ page.continuationToken # None
          THEN /\ calls' = [calls EXCEPT ![p].marker = page.continuationToken,
                                         ![p].blobs = acc2,
                                         ![p].pageNo = c.pageNo + 1]
               /\ UNCHANGED last
          ELSE /\ calls' = [calls EXCEPT ![p] = NoCall]
               /\ last' = LastRecord("listBlobs", CallArgs(c),
                                     ListBlobsReturn(c.delimiter, run, c.token),
                                     c.container \in containers)
       /\ UNCHANGED <<proxyFields, storageVars, url, calloutVars, subsVars>>

\* Storage accounts that the calls of Spec build.
ConcStorages ==
    {[c \in ContainerNames |-> [n \in BlobNames |-> 1]],
     [c \in ContainerNames |->
         [n \in BlobNames |-> IF c = <<"h">> /\ n = <<"d", "/", "a">> THEN 0 ELSE 1]]}

InitConc ==
    /\ InitProxy(<<"a">>, <<"e">>)
    /\ containers = ContainerNames
    /\ blobs \in ConcStorages
    /\ InitCallout
    /\ InitSubs

NextConc == \E p \in Callers : ListBlobsCall(p) \/ ListBlobsNextPage(p)

SpecConc == InitConc /\ [][NextConc]_vars

\* C10: no call changes the fields of the proxy, and a listBlobs call that
\* ran interleaved with other calls returns or throws what the same call
\* does when it runs alone on the same storage.
C10_NoCrossCallState ==
    /\ credential = constructor(<<"a">>, <<"e">>).credential
    /\ blobEndpoint = constructor(<<"a">>, <<"e">>).blobEndpoint
    /\ storageService = constructor(<<"a">>, <<"e">>).storageService
    /\ (last.op = "listBlobs") =>
          LET alone == listBlobs(last.container,
                                 [folder |-> last.prefix, recursive |-> last.recursive,
                                  limit |-> last.limit],
                                 last.token, last.faultAt)
          IN /\ last.error = alone.error
             /\ last.data = alone.data
             /\ last.retToken = alone.token

\* C10 happens: a call returned several blobs while another call, on another
\* container, was suspended between two pages with blobs in its array.
C10_Witness ==
    /\ ListedOk
    /\ Len(last.data) > 1
    /\ last.sdkCalls > 1
    /\ \E q \in Callers :
          /\ calls[q].pc = "paging"
          /\ calls[q].blobs # <<>>
          /\ calls[q].container # last.container

(***************************************************************************)
(* FakeSubscriptionService.  Each method is an operator that gives the     *)
(* array subscriptions as the call leaves it and what its promise resolves *)
(* to.  The methods declare no parameter: what a caller passes is ignored. *)
(***************************************************************************)
SubscriptionIds == {"/fake/sub1", "/fake/badsub", "/fake/none"}
SubscriptionArgs ==
    {FakeSubscriptions[1], [id |-> "/fake/new", displayName |-> "New Subscription"]}

list == [subs |-> subscriptions, result |-> [kind |-> "list", value |-> subscriptions]]

get(id) == [subs |-> subscriptions, result |-> [kind |-> "null", value |-> <<>>]]

\* Mutant: a fixture that stores the subscription it is given.
create_push(sub) ==
    [subs |-> Append(subscriptions, sub), result |-> [kind |-> "void", value |-> <<>>]]

create(sub) == [subs |-> subscriptions, result |-> [kind |-> "void", value |-> <<>>]]

remove(sub) == [subs |-> subscriptions, result |-> [kind |-> "void", value |-> <<>>]]

update(sub) == [subs |-> subscriptions, result |-> [kind |-> "void", value |-> <<>>]]

\* The promise of a call resolves.
SubsSettle(op, id, out) ==
    /\ Len(subsLog) < MaxSubscriptionCalls
    /\ subscriptions' = out.subs
    /\ subsLog' = Append(subsLog, [op |-> op, id |-> id])
    /\ subsResult' = out.result
    /\ UNCHANGED <<proxyFields, storageVars, last, calls, url, calloutVars>>

SubsList == SubsSettle("list", "", list)

SubsGet == \E id \in SubscriptionIds : SubsSettle("get", id, get(id))

SubsCreate == \E sub \in SubscriptionArgs : SubsSettle("create", sub.id, create(sub))

SubsRemove == \E sub \in SubscriptionArgs : SubsSettle("remove", sub.id, remove(sub))

SubsUpdate == \E sub \in SubscriptionArgs : SubsSettle("update", sub.id, update(sub))

NextSubs == SubsList \/ SubsGet \/ SubsCreate \/ SubsRemove \/ SubsUpdate

SpecSubs == Init /\ [][NextSubs]_vars

IdsOf(subs) == [i \in 1..Len(subs) |-> subs[i].id]

FiveIds == <<"/fake/sub1", "/fake/sub2", "/fake/sub3", "/fake/sub4", "/fake/badsub">>

LastSubsCall == subsLog[Len(subsLog)]

\* C11: after any calls of create, remove, update, get and list, list resolves
\* to the five subscriptions /fake/sub1, /fake/sub2, /fake/sub3, /fake/sub4
\* and /fake/badsub in this order, and get resolves to null for every id, the
\* ids that list returns included.
C11_ListFixedGetNull ==
    /\ IdsOf(list.result.value) = FiveIds
    /\ \A id \in SubscriptionIds \cup {FiveIds[i] : i \in 1..Len(FiveIds)} :
          get(id).result.kind = "null"
    /\ (subsLog # <<>> /\ LastSubsCall.op = "list") =>
          subsResult.kind = "list" /\ IdsOf(subsResult.value) = FiveIds
    /\ (subsLog # <<>> /\ LastSubsCall.op = "get") => subsResult.kind = "null"

\* C11 happens: list was called after a create and a get of a listed id.
C11_Witness ==
    /\ Len(subsLog) = 3
    /\ subsLog[1].op = "create" /\ subsLog[1].id = "/fake/new"
    /\ subsLog[2].op = "get" /\ subsLog[2].id = "/fake/sub1"
    /\ subsLog[3].op = "list"
    /\ IdsOf(subsResult.value) = FiveIds

====
